---- MODULE Spec2Model ----
\* A model of fluent-command's FluentCommand (src/src/command.ts): the builder's
\* private fields, the child-process events node:child_process delivers to the
\* listeners #runOrRead installs, the promise each execution returns, and the
\* side effects visible from outside (observer calls, writes to process.stdout
\* and process.stderr). The older variant of the class (src/unnamed/part_000) is
\* given the same calls and events, so that the two can be compared.
\*
\* Strings are sequences of one-character strings, so that concatenation,
\* prefixing and trimEnd are computed and not assumed.
EXTENDS Integers, Sequences, FiniteSets, TLC

\* ---------------------------------------------------------------- bounds
\* Executions of one builder; steps of a behaviour of Spec, of ExecSpec, of
\* BuildSpec, of CwdSpec, of LiveSpec and of ReuseSpec.
MaxExecs == 2
MaxSteps == 5
MaxExecSteps == 7
MaxBuildCalls == 3
MaxCwdSteps == 5
MaxLiveSteps == 3
MaxReuseSteps == 8

\* ------------------------------------------------------- program constants
SPAWN_MISSING_EXE_CODE == -2

\* ------------------------------------------------------------- JS values
Null == [t |-> "null"]
Undefined == [t |-> "undefined"]
Num(n) == [t |-> "number", v |-> n]
Str(s) == [t |-> "string", v |-> s]
Fn(i) == [t |-> "function", id |-> i]
typeof(x) == x.t

Whitespace == {" ", "\n"}

Digit(d) == CASE d = 0 -> "0" [] d = 1 -> "1" [] d = 2 -> "2" [] d = 3 -> "3"
              [] d = 4 -> "4" [] d = 5 -> "5" [] d = 6 -> "6" [] d = 7 -> "7"
              [] d = 8 -> "8" [] d = 9 -> "9"

RECURSIVE natToString(_)
natToString(n) == IF n < 10 THEN <<Digit(n)>>
                  ELSE natToString(n \div 10) \o <<Digit(n % 10)>>

\* Number.prototype.toString() on an integer.
toString(n) == IF n < 0 THEN <<"-">> \o natToString(0 - n) ELSE natToString(n)

\* "-".repeat(dashes)
RECURSIVE repeat(_, _)
repeat(c, n) == IF n = 0 THEN <<>> ELSE <<c>> \o repeat(c, n - 1)

\* String.prototype.trimEnd()
RECURSIVE trimEnd(_)
trimEnd(s) == IF s = <<>> THEN s
              ELSE IF s[Len(s)] \in Whitespace THEN trimEnd(SubSeq(s, 1, Len(s) - 1))
              ELSE s

\* ----------------------------------------------------------------- paths
\* A path is absolute or relative and holds its segments; "" is the empty
\* relative path.
Path(abs, segs) == [abs |-> abs, segs |-> segs]
ProcessCwd == Path(TRUE, <<"w">>)

RECURSIVE normalize(_, _)
normalize(done, rest) ==
    IF rest = <<>> THEN done
    ELSE IF Head(rest) = ".."
         THEN normalize(IF done = <<>> THEN done ELSE SubSeq(done, 1, Len(done) - 1), Tail(rest))
         ELSE normalize(Append(done, Head(rest)), Tail(rest))

RECURSIVE resolveFrom(_, _)
resolveFrom(acc, frags) ==
    IF frags = <<>> THEN acc
    ELSE LET p == Head(frags)
             next == IF p.abs THEN Path(TRUE, normalize(<<>>, p.segs))
                     ELSE Path(TRUE, normalize(acc.segs, p.segs))
         IN resolveFrom(next, Tail(frags))

\* pathe's resolve(...fragments), anchored at the process's current directory.
resolvePath(frags) == resolveFrom(ProcessCwd, frags)

\* cwd() of node:process
cwd == ProcessCwd

\* ------------------------------------------------------------ input sets
Executable == <<"x">>
InitialArgsSet == { <<>>, << <<"i">> >> }
ArgLists == { << <<"t">> >>, << <<"t">>, <<"u">> >> }
Keys == { <<>>, <<"k">> }
Values == { Undefined, Str(<<>>), Str(<<"v">>), Num(0), Num(12) }
SysKeys == { <<"k">> }
SysValues == { Num(0) }
SysArgLists == { << <<"t">> >> }
SysCwds == { << Path(FALSE, <<"d">>), << Path(FALSE, <<"..">>), Path(TRUE, <<"r">>) >> >> }
\* The cwd() calls of CwdSpec: relative and absolute fragments, "..", the
\* empty fragment, an absolute fragment in first, middle and last position.
Cwds == { << Path(FALSE, <<"d">>), <<>> >>,
          << Path(TRUE, <<"a">>), << Path(FALSE, <<"b">>) >> >>,
          << Path(FALSE, <<"d">>), << Path(FALSE, <<"..">>), Path(TRUE, <<"r">>) >> >>,
          << Path(FALSE, <<"d">>), << Path(TRUE, <<"r">>), Path(FALSE, <<"..", "s">>) >> >>,
          << Path(FALSE, <<>>), << Path(FALSE, <<"e">>) >> >> }
\* What a stream delivers: text with leading, interior and trailing whitespace.
Chunks(source) == IF source = "stdout" THEN { <<" ", "o", " ", "k", " ">> } ELSE { <<"e", "\n">> }
\* The stdout chunks of ReuseSpec: two texts that can be told apart, each
\* with trailing whitespace.
ReuseChunks == { <<"a", " ">>, <<"b", "\n">> }
ExitCodes == { 0, 1 }
Signals == { "SIGTERM" }
\* The errors node:child_process emits when the OS cannot create the process:
\* an ErrnoException with a string code, and the negative errno the close
\* notification then carries as the exit code.
SpawnErrors == { [code |-> <<"A">>, message |-> <<"m", " ", "A">>, errno |-> -13] }
\* The errors spawn() itself throws (an argument it refuses, a failure the OS
\* reports at once): errors with a string code.
ThrownErrors == { [code |-> <<"I">>, message |-> <<"n", "o">>] }
Execs == 1 .. MaxExecs

VARIABLES
    fc,             \* the FluentCommand's private fields
    execs,          \* per execution: the child process, the promise, the result
    observed,       \* the calls made to registered observers, in order
    written,        \* what was written to process.stdout and process.stderr
    now,            \* performance.now()
    effects,        \* observer calls and writes in the order made, with what a callee can see
    twin,           \* the same calls and events, with run() and read() exchanged
    old,            \* the same calls and events, given to the older variant
    ctorArgs,       \* history: the initialArgs given to fcmd
    history,        \* history: the args/opt/option/cwd calls, in order
    registrations,  \* history: the observer registrations, in order
    received,       \* history: the chunks handled, in order
    left            \* the steps the behaviour may still take

vars == <<fc, execs, observed, written, now, effects, twin, old, ctorArgs, history, registrations, received, left>>

World == [fc |-> fc, execs |-> execs, observed |-> observed, written |-> written, now |-> now,
          effects |-> effects]

Commit(w) ==
    /\ fc' = w.fc
    /\ execs' = w.execs
    /\ observed' = w.observed
    /\ written' = w.written
    /\ now' = w.now
    /\ effects' = w.effects

NoResult == [variant |-> "pending"]
NoExec == [st |-> "idle", op |-> "none", promise |-> "none", reason |-> Undefined,
           result |-> NoResult, spawned |-> Null, exit |-> Null, error |-> Null,
           closedBeforeMapped |-> FALSE, startedAt |-> 0, overlapped |-> {}]

\* new FluentCommand(executable, ...initialArgs)
constructor(initialArgs) ==
    [ executable |-> Executable,
      commandArgs |-> initialArgs,
      startTime |-> 0,
      stdoutContents |-> <<>>,
      stderrContents |-> <<>>,
      outputContents |-> <<>>,
      code |-> Null,
      signal |-> Null,
      cwdPath |-> Path(FALSE, <<>>),
      extraCwdPathPieces |-> <<>>,
      resolvedCwd |-> Path(FALSE, <<>>),
      spawnHandler |-> Undefined,
      stdoutHandler |-> Undefined,
      stderrHandler |-> Undefined,
      outputHandler |-> Undefined,
      shouldBeSilent |-> TRUE ]

NewWorld(initialArgs) ==
    [ fc |-> constructor(initialArgs),
      execs |-> [e \in Execs |-> NoExec],
      observed |-> <<>>,
      written |-> [stdout |-> <<>>, stderr |-> <<>>],
      now |-> 0,
      effects |-> <<>> ]

\* The older variant (src/unnamed/part_000): #code and #signal start
\* undefined; the fields it does not have keep their initial value and are
\* never read.
old_constructor(initialArgs) ==
    [constructor(initialArgs) EXCEPT !.code = Undefined, !.signal = Undefined]

OldWorld(initialArgs) == [NewWorld(initialArgs) EXCEPT !.fc = old_constructor(initialArgs)]

InitWith(bound) ==
    \E initialArgs \in InitialArgsSet :
        /\ fc = constructor(initialArgs)
        /\ execs = [e \in Execs |-> NoExec]
        /\ observed = <<>>
        /\ written = [stdout |-> <<>>, stderr |-> <<>>]
        /\ now = 0
        /\ effects = <<>>
        /\ twin = NewWorld(initialArgs)
        /\ old = OldWorld(initialArgs)
        /\ ctorArgs = initialArgs
        /\ history = <<>>
        /\ registrations = <<>>
        /\ received = <<>>
        /\ left = bound

\* ------------------------------------------------------- builder methods
\* A variant of #addArgs that adds at the front (unshift for push).
addArgs_unshift(w, extraArgs) == [w EXCEPT !.fc.commandArgs = extraArgs \o @]

\* #addArgs: this.#commandArgs.push(...extraArgs)
addArgs(w, extraArgs) == [w EXCEPT !.fc.commandArgs = @ \o extraArgs]

\* A variant of #addOptionPair that tests the value for truthiness, and so
\* drops the number 0.
addOptionPair_truthy(w, dashes, optionKey, optionValue) ==
    LET w1 == IF Len(optionKey) > 0
              THEN addArgs(w, << repeat("-", dashes) \o optionKey >>)
              ELSE w
    IN  IF typeof(optionValue) = "string" /\ Len(optionValue.v) > 0
        THEN addArgs(w1, << optionValue.v >>)
        ELSE IF typeof(optionValue) = "number" /\ optionValue.v # 0
             THEN addArgs(w1, << toString(optionValue.v) >>)
             ELSE w1

\* #addOptionPair
addOptionPair(w, dashes, optionKey, optionValue) ==
    LET w1 == IF Len(optionKey) > 0
              THEN addArgs(w, << repeat("-", dashes) \o optionKey >>)
              ELSE w
    IN  IF typeof(optionValue) = "string" /\ Len(optionValue.v) > 0
        THEN addArgs(w1, << optionValue.v >>)
        ELSE IF typeof(optionValue) = "number"
             THEN addArgs(w1, << toString(optionValue.v) >>)
             ELSE w1

args(w, argList) == addArgs(w, argList)

opt(w, optionKey, optionValue) == addOptionPair(w, 1, optionKey, optionValue)

option(w, optionKey, optionValue) == addOptionPair(w, 2, optionKey, optionValue)

setCwd(w, cwdPath, extraCwdPathPieces) ==
    [w EXCEPT !.fc.cwdPath = cwdPath, !.fc.extraCwdPathPieces = extraCwdPathPieces]

onSpawn(w, spawnHandler) == [w EXCEPT !.fc.spawnHandler = spawnHandler]

onStdout(w, stdoutHandler) == [w EXCEPT !.fc.stdoutHandler = stdoutHandler]

\* A variant of onStderr that stores the callback in the stdout slot.
onStderr_inStdoutSlot(w, stderrHandler) == [w EXCEPT !.fc.stdoutHandler = stderrHandler]

onStderr(w, stderrHandler) == [w EXCEPT !.fc.stderrHandler = stderrHandler]

onOutput(w, outputHandler) == [w EXCEPT !.fc.outputHandler = outputHandler]

\* ---------------------------------------------------- result projection
\* The outcome's commandArgs is the builder's own array, not a copy.
CommandArgsRef == "this.#commandArgs"

\* What a reference to the builder's array stands for: the array as it is
\* when it is read.
deref(w, ref) == w.fc.commandArgs

\* String.prototype.trim(): both ends.
RECURSIVE trimStart(_)
trimStart(s) == IF s = <<>> THEN s
                ELSE IF Head(s) \in Whitespace THEN trimStart(Tail(s))
                ELSE s

\* A variant of #commandSuccess that trims with trim().
commandSuccess_trim(w) ==
    [ stdout |-> trimStart(trimEnd(w.fc.stdoutContents)),
      stderr |-> trimStart(trimEnd(w.fc.stderrContents)),
      output |-> trimStart(trimEnd(w.fc.outputContents)),
      executable |-> w.fc.executable,
      commandArgs |-> CommandArgsRef,
      cwd |-> w.fc.resolvedCwd,
      duration |-> w.now - w.fc.startTime ]

\* #commandSuccess
commandSuccess(w) ==
    [ stdout |-> trimEnd(w.fc.stdoutContents),
      stderr |-> trimEnd(w.fc.stderrContents),
      output |-> trimEnd(w.fc.outputContents),
      executable |-> w.fc.executable,
      commandArgs |-> CommandArgsRef,
      cwd |-> w.fc.resolvedCwd,
      duration |-> w.now - w.fc.startTime ]

\* #commandError
commandError(w) ==
    LET metaData == commandSuccess(w)
        withCode == IF w.fc.code # Null
                    THEN [code |-> w.fc.code.v] @@ metaData
                    ELSE metaData
    IN  IF w.fc.signal # Null
        THEN [signal |-> w.fc.signal.v] @@ withCode
        ELSE withCode

\* ------------------------------------------------------------ streaming
\* A call of a registered observer; an unregistered one is skipped.
invoke(w, handler, arg) ==
    IF handler # Undefined
    THEN [w EXCEPT !.observed = Append(@, [fn |-> handler.id, arg |-> arg]),
                   !.effects = Append(@, [kind |-> "call", fn |-> handler.id, arg |-> arg,
                                          stdout |-> w.fc.stdoutContents,
                                          stderr |-> w.fc.stderrContents,
                                          output |-> w.fc.outputContents])]
    ELSE w

\* process[source].write(chunk), unless silent
mirror(w, source, chunk) ==
    IF ~w.fc.shouldBeSilent
    THEN [w EXCEPT !.written[source] = Append(@, chunk),
                   !.effects = Append(@, [kind |-> "write", source |-> source, chunk |-> chunk])]
    ELSE w

\* A variant of #onChunk that either mirrors a chunk or hands it to the
\* observers.
onChunk_mirrorOrObserve(w, source, chunk) ==
    LET handler == IF source = "stdout" THEN w.fc.stdoutHandler
                   ELSE IF source = "stderr" THEN w.fc.stderrHandler
                   ELSE w.fc.stdoutHandler
        w1 == IF source = "stdout" THEN [w EXCEPT !.fc.stdoutContents = @ \o chunk]
              ELSE IF source = "stderr" THEN [w EXCEPT !.fc.stderrContents = @ \o chunk]
              ELSE w
        w2 == [w1 EXCEPT !.fc.outputContents = @ \o chunk]
        w3 == invoke(w2, handler, Str(chunk))
        w4 == invoke(w3, w3.fc.outputHandler, Str(chunk))
    IN  IF ~w.fc.shouldBeSilent THEN mirror(w2, source, chunk) ELSE w4

\* A variant of #onChunk that leaves stderr chunks out of the combined text.
onChunk_stderrNotCombined(w, source, chunk) ==
    LET handler == IF source = "stdout" THEN w.fc.stdoutHandler
                   ELSE IF source = "stderr" THEN w.fc.stderrHandler
                   ELSE w.fc.stdoutHandler
        w1 == IF source = "stdout"
              THEN [w EXCEPT !.fc.stdoutContents = @ \o chunk, !.fc.outputContents = @ \o chunk]
              ELSE IF source = "stderr" THEN [w EXCEPT !.fc.stderrContents = @ \o chunk]
              ELSE w
        w3 == invoke(w1, handler, Str(chunk))
        w4 == invoke(w3, w3.fc.outputHandler, Str(chunk))
    IN  mirror(w4, source, chunk)

\* #onChunk
onChunk(w, source, chunk) ==
    LET handler == IF source = "stdout" THEN w.fc.stdoutHandler
                   ELSE IF source = "stderr" THEN w.fc.stderrHandler
                   ELSE w.fc.stdoutHandler
        w1 == IF source = "stdout" THEN [w EXCEPT !.fc.stdoutContents = @ \o chunk]
              ELSE IF source = "stderr" THEN [w EXCEPT !.fc.stderrContents = @ \o chunk]
              ELSE w
        w2 == [w1 EXCEPT !.fc.outputContents = @ \o chunk]
        w3 == invoke(w2, handler, Str(chunk))
        w4 == invoke(w3, w3.fc.outputHandler, Str(chunk))
    IN  mirror(w4, source, chunk)

\* #onSpawn
spawnListener(w) ==
    invoke(w, w.fc.spawnHandler,
           [t |-> "object",
            executable |-> w.fc.executable,
            commandArgs |-> CommandArgsRef,
            cwd |-> w.fc.resolvedCwd])

\* ------------------------------------------------------------- promises
\* resolve(value) of the promise of execution e; a settled promise ignores it.
\* ResultAsync.fromThrowable turns the fulfilled value into the ok variant.
resolve(w, e, value) ==
    IF w.execs[e].promise = "pending"
    THEN [w EXCEPT !.execs[e].promise = "fulfilled",
                   !.execs[e].result = [variant |-> "ok", value |-> value]]
    ELSE w

\* reject(reason) of the promise of execution e; a settled promise ignores it.
reject(w, e, reason) ==
    IF w.execs[e].promise = "pending"
    THEN [w EXCEPT !.execs[e].promise = "rejected", !.execs[e].reason = reason]
    ELSE w

Diagnostic(err) == err.code \o <<":", " ">> \o err.message

\* A variant of the error mapper that does not record the sentinel code.
errorMapper_noSentinel(w, e) ==
    LET err == w.execs[e].reason
        w1 == IF err # Undefined /\ err # Null /\ typeof(err) = "object"
                 /\ "code" \in DOMAIN err /\ typeof(err.code) = "string"
              THEN onChunk(w, "stderr", Diagnostic([code |-> err.code.v, message |-> err.message.v]))
              ELSE w
    IN  [w1 EXCEPT !.execs[e].result = [variant |-> "err", value |-> commandError(w1)],
                   !.execs[e].closedBeforeMapped = (w.execs[e].st = "closed")]

\* The error mapper given to ResultAsync.fromThrowable, run on the rejection
\* reason of execution e; its return value becomes the error variant.
errorMapper(w, e) ==
    LET err == w.execs[e].reason
        w1 == IF err # Undefined /\ err # Null /\ typeof(err) = "object"
                 /\ "code" \in DOMAIN err /\ typeof(err.code) = "string"
              THEN onChunk([w EXCEPT !.fc.code = Num(SPAWN_MISSING_EXE_CODE)],
                           "stderr", Diagnostic([code |-> err.code.v, message |-> err.message.v]))
              ELSE w
    IN  [w1 EXCEPT !.execs[e].result = [variant |-> "err", value |-> commandError(w1)],
                   !.execs[e].closedBeforeMapped = (w.execs[e].st = "closed")]

\* An ErrnoException as a JS value.
ErrnoException(se) == [t |-> "object", code |-> Str(se.code), message |-> Str(se.message)]

\* ------------------------------------------------------- #runOrRead
\* The executions started whose result is not settled yet.
Unsettled(w) == { d \in Execs : w.execs[d].st # "idle" /\ w.execs[d].result = NoResult }

NextExec(w) == CHOOSE e \in Execs : w.execs[e].st = "idle" /\ \A d \in Execs : d < e => w.execs[d].st # "idle"

\* A variant of the promise executor that empties the accumulators first.
runOrRead_resets(w, terminal) ==
    LET e == NextExec(w)
        resolved == resolvePath(<<cwd, w.fc.cwdPath>> \o w.fc.extraCwdPathPieces)
        w1 == [w EXCEPT !.fc.startTime = w.now, !.fc.resolvedCwd = resolved,
                        !.fc.stdoutContents = <<>>, !.fc.stderrContents = <<>>,
                        !.fc.outputContents = <<>>]
    IN  [w1 EXCEPT !.execs[e] =
            [NoExec EXCEPT !.st = "spawning", !.op = terminal, !.promise = "pending",
                           !.startedAt = w.now, !.overlapped = Unsettled(w),
                           !.spawned = [executable |-> w1.fc.executable,
                                        args |-> w1.fc.commandArgs,
                                        cwd |-> w1.fc.resolvedCwd]]]

\* The promise executor, up to the installation of the listeners.
runOrRead(w, terminal) ==
    LET e == NextExec(w)
        resolved == resolvePath(<<cwd, w.fc.cwdPath>> \o w.fc.extraCwdPathPieces)
        w1 == [w EXCEPT !.fc.startTime = w.now, !.fc.resolvedCwd = resolved]
    IN  [w1 EXCEPT !.execs[e] =
            [NoExec EXCEPT !.st = "spawning", !.op = terminal, !.promise = "pending",
                           !.startedAt = w.now, !.overlapped = Unsettled(w),
                           !.spawned = [executable |-> w1.fc.executable,
                                        args |-> w1.fc.commandArgs,
                                        cwd |-> w1.fc.resolvedCwd]]]

\* The promise executor when spawn() throws: no process and no listener; the
\* promise is rejected with the error thrown.
runOrReadThrows(w, terminal, err) ==
    LET e == NextExec(w)
        resolved == resolvePath(<<cwd, w.fc.cwdPath>> \o w.fc.extraCwdPathPieces)
        w1 == [w EXCEPT !.fc.startTime = w.now, !.fc.resolvedCwd = resolved]
        w2 == [w1 EXCEPT !.execs[e] =
                  [NoExec EXCEPT !.st = "threw", !.op = terminal, !.promise = "pending",
                                 !.startedAt = w.now, !.overlapped = Unsettled(w),
                                 !.error = err,
                                 !.spawned = [executable |-> w1.fc.executable,
                                              args |-> w1.fc.commandArgs,
                                              cwd |-> w1.fc.resolvedCwd]]]
    IN  reject(w2, e, err)

run(w) == runOrRead([w EXCEPT !.fc.shouldBeSilent = FALSE], "run")

read(w) == runOrRead([w EXCEPT !.fc.shouldBeSilent = TRUE], "read")

\* A variant of the "error" listener that does not reject.
errorListener_noReject(w, e, err) ==
    [w EXCEPT !.execs[e].st = "errored", !.execs[e].error = err]

\* proc.on("error", reject)
errorListener(w, e, err) ==
    reject([w EXCEPT !.execs[e].st = "errored", !.execs[e].error = err], e, err)

\* A variant of the "close" listener that resolves with #commandError().
closeListener_resolvesWithError(w, e, code, signal) ==
    LET w0 == [w EXCEPT !.execs[e].st = "closed",
                        !.execs[e].exit = [code |-> code, signal |-> signal]]
        w1 == [w0 EXCEPT !.fc.code = code, !.fc.signal = signal]
    IN  IF code = Num(0)
        THEN resolve(w1, e, commandError(w1))
        ELSE IF w1.execs[e].promise = "pending"
             THEN errorMapper(reject(w1, e, Undefined), e)
             ELSE w1

\* A variant of the "close" listener that stores only a code and a signal
\* that are not null.
closeListener_keepsOld(w, e, code, signal) ==
    LET w0 == [w EXCEPT !.execs[e].st = "closed",
                        !.execs[e].exit = [code |-> code, signal |-> signal]]
        w1 == [w0 EXCEPT !.fc.code = IF code # Null THEN code ELSE @,
                         !.fc.signal = IF signal # Null THEN signal ELSE @]
    IN  IF code = Num(0)
        THEN resolve(w1, e, commandSuccess(w1))
        ELSE IF w1.execs[e].promise = "pending"
             THEN errorMapper(reject(w1, e, Undefined), e)
             ELSE w1

\* A variant of the "close" listener whose rejection is mapped again when the
\* promise was settled before.
closeListener_settlesAgain(w, e, code, signal) ==
    LET w0 == [w EXCEPT !.execs[e].st = "closed",
                        !.execs[e].exit = [code |-> code, signal |-> signal]]
        w1 == [w0 EXCEPT !.fc.code = code, !.fc.signal = signal]
    IN  IF code = Num(0)
        THEN resolve(w1, e, commandSuccess(w1))
        ELSE errorMapper(reject(w1, e, Undefined), e)

\* proc.on("close", (code, signal) => ...). A rejection made here reaches the
\* error mapper in the microtasks that follow the listener, before any other
\* event of the loop.
closeListener(w, e, code, signal) ==
    LET w0 == [w EXCEPT !.execs[e].st = "closed",
                        !.execs[e].exit = [code |-> code, signal |-> signal]]
        w1 == [w0 EXCEPT !.fc.code = code, !.fc.signal = signal]
    IN  IF code = Num(0)
        THEN resolve(w1, e, commandSuccess(w1))
        ELSE IF w1.execs[e].promise = "pending"
             THEN errorMapper(reject(w1, e, Undefined), e)
             ELSE w1

\* -------------------------------- the older variant (src/unnamed/part_000)
\* #commandSuccess, with the older names of the fields
old_commandSuccess(w) ==
    [ stdout |-> trimEnd(w.fc.stdoutContents),
      stderr |-> trimEnd(w.fc.stderrContents),
      output |-> trimEnd(w.fc.outputContents),
      cmd |-> w.fc.executable,
      cmdArgs |-> CommandArgsRef,
      cwd |-> w.fc.resolvedCwd,
      duration |-> w.now - w.fc.startTime ]

\* #commandError: the code and the signal that are not undefined
old_commandError(w) ==
    LET metaData == old_commandSuccess(w)
        withCode == IF w.fc.code # Undefined
                    THEN [code |-> w.fc.code.v] @@ metaData
                    ELSE metaData
    IN  IF w.fc.signal # Undefined
        THEN [signal |-> w.fc.signal.v] @@ withCode
        ELSE withCode

\* process[source].write(chunk)
old_write(w, source, chunk) ==
    [w EXCEPT !.written[source] = Append(@, chunk),
              !.effects = Append(@, [kind |-> "write", source |-> source, chunk |-> chunk])]

\* proc.stdout.on("data", ...) of an execution started with shouldBeSilent
old_onStdoutData(w, shouldBeSilent, stdoutChunk) ==
    LET w1 == [w EXCEPT !.fc.stdoutContents = @ \o stdoutChunk]
        w2 == IF ~shouldBeSilent THEN old_write(w1, "stdout", stdoutChunk) ELSE w1
        w3 == invoke(w2, w2.fc.stdoutHandler, Str(stdoutChunk))
    IN  invoke(w3, w3.fc.outputHandler, Str(stdoutChunk))

\* proc.stderr.on("data", ...) of an execution started with shouldBeSilent
old_onStderrData(w, shouldBeSilent, stderrChunk) ==
    LET w1 == [w EXCEPT !.fc.stderrContents = @ \o stderrChunk]
        w2 == IF ~shouldBeSilent THEN old_write(w1, "stderr", stderrChunk) ELSE w1
        w3 == invoke(w2, w2.fc.stderrHandler, Str(stderrChunk))
    IN  invoke(w3, w3.fc.outputHandler, Str(stderrChunk))

\* The shouldBeSilent the listeners of execution e closed over.
old_silent(w, e) == w.execs[e].op = "read"

old_onData(w, e, source, chunk) ==
    IF source = "stdout" THEN old_onStdoutData(w, old_silent(w, e), chunk)
    ELSE old_onStderrData(w, old_silent(w, e), chunk)

\* The error mapper of the older variant: the diagnostic is added to the
\* stderr accumulator directly, and no code is recorded.
old_errorMapper(w, e) ==
    LET err == w.execs[e].reason
        w1 == IF err # Null /\ typeof(err) = "object"
                 /\ "code" \in DOMAIN err /\ typeof(err.code) = "string"
              THEN [w EXCEPT !.fc.stderrContents =
                        @ \o Diagnostic([code |-> err.code.v, message |-> err.message.v])]
              ELSE w
    IN  [w1 EXCEPT !.execs[e].result = [variant |-> "err", value |-> old_commandError(w1)],
                   !.execs[e].closedBeforeMapped = (w.execs[e].st = "closed")]

\* The promise executor of #runOrRead(shouldBeSilent), up to the installation
\* of the listeners.
old_runOrRead(w, shouldBeSilent) ==
    LET e == NextExec(w)
        resolved == resolvePath(<<cwd, w.fc.cwdPath>> \o w.fc.extraCwdPathPieces)
        w1 == [w EXCEPT !.fc.startTime = w.now, !.fc.resolvedCwd = resolved]
    IN  [w1 EXCEPT !.execs[e] =
            [NoExec EXCEPT !.st = "spawning", !.promise = "pending",
                           !.op = IF shouldBeSilent THEN "read" ELSE "run",
                           !.startedAt = w.now, !.overlapped = Unsettled(w),
                           !.spawned = [executable |-> w1.fc.executable,
                                        args |-> w1.fc.commandArgs,
                                        cwd |-> w1.fc.resolvedCwd]]]

\* The same when spawn() throws.
old_runOrReadThrows(w, shouldBeSilent, err) ==
    LET e == NextExec(w)
        w1 == old_runOrRead(w, shouldBeSilent)
    IN  reject([w1 EXCEPT !.execs[e].st = "threw", !.execs[e].error = err], e, err)

old_run(w) == old_runOrRead(w, FALSE)

old_read(w) == old_runOrRead(w, TRUE)

\* proc.on("error", reject)
old_errorListener(w, e, err) ==
    reject([w EXCEPT !.execs[e].st = "errored", !.execs[e].error = err], e, err)

\* proc.on("close", ...): a code and a signal are stored when they are not
\* null.
old_closeListener(w, e, code, signal) ==
    LET w0 == [w EXCEPT !.execs[e].st = "closed",
                        !.execs[e].exit = [code |-> code, signal |-> signal]]
        w1 == [w0 EXCEPT !.fc.code = IF code # Null THEN code ELSE @,
                         !.fc.signal = IF signal # Null THEN signal ELSE @]
    IN  IF code = Num(0)
        THEN resolve(w1, e, old_commandSuccess(w1))
        ELSE IF w1.execs[e].promise = "pending"
             THEN old_errorMapper(reject(w1, e, Undefined), e)
             ELSE w1

\* Time passes between two turns of the event loop.
tick(w) == [w EXCEPT !.now = @ + 1]

\* --------------------------------------------------------------- actions
Started == { e \in Execs : execs[e].st # "idle" }

Call(op, a, b) == [op |-> op, a |-> a, b |-> b]

Step == left > 0 /\ left' = left - 1

\* args(anArg, ...extraArgs)
Args(argList) ==
    /\ Step
    /\ Commit(args(World, argList))
    /\ twin' = args(twin, argList)
    /\ old' = args(old, argList)
    /\ history' = Append(history, Call("args", argList, Undefined))
    /\ UNCHANGED <<ctorArgs, registrations, received>>

\* opt(optionKey, optionValue)
Opt(optionKey, optionValue) ==
    /\ Step
    /\ Commit(opt(World, optionKey, optionValue))
    /\ twin' = opt(twin, optionKey, optionValue)
    /\ old' = opt(old, optionKey, optionValue)
    /\ history' = Append(history, Call("opt", optionKey, optionValue))
    /\ UNCHANGED <<ctorArgs, registrations, received>>

\* option(optionKey, optionValue)
Option(optionKey, optionValue) ==
    /\ Step
    /\ Commit(option(World, optionKey, optionValue))
    /\ twin' = option(twin, optionKey, optionValue)
    /\ old' = option(old, optionKey, optionValue)
    /\ history' = Append(history, Call("option", optionKey, optionValue))
    /\ UNCHANGED <<ctorArgs, registrations, received>>

\* cwd(cwdPath, ...extraCwdPathPieces)
Cwd(cwdPath, extraCwdPathPieces) ==
    /\ Step
    /\ Commit(setCwd(World, cwdPath, extraCwdPathPieces))
    /\ twin' = setCwd(twin, cwdPath, extraCwdPathPieces)
    /\ old' = setCwd(old, cwdPath, extraCwdPathPieces)
    /\ history' = Append(history, Call("cwd", cwdPath, extraCwdPathPieces))
    /\ UNCHANGED <<ctorArgs, registrations, received>>

\* Each registration passes a callback of its own.
NewHandler == Fn(Len(registrations) + 1)
Registered(channel) ==
    /\ Step
    /\ registrations' = Append(registrations, [channel |-> channel, id |-> NewHandler.id])
    /\ UNCHANGED <<ctorArgs, history, received>>

OnSpawn ==
    /\ Registered("spawn")
    /\ Commit(onSpawn(World, NewHandler))
    /\ twin' = onSpawn(twin, NewHandler)
    /\ UNCHANGED old

OnStdout ==
    /\ Registered("stdout")
    /\ Commit(onStdout(World, NewHandler))
    /\ twin' = onStdout(twin, NewHandler)
    /\ old' = onStdout(old, NewHandler)

OnStderr ==
    /\ Registered("stderr")
    /\ Commit(onStderr(World, NewHandler))
    /\ twin' = onStderr(twin, NewHandler)
    /\ old' = onStderr(old, NewHandler)

OnOutput ==
    /\ Registered("output")
    /\ Commit(onOutput(World, NewHandler))
    /\ twin' = onOutput(twin, NewHandler)
    /\ old' = onOutput(old, NewHandler)

\* run(): the twin calls read()
Run ==
    /\ Step
    /\ Started # Execs
    /\ Commit(run(World))
    /\ twin' = read(twin)
    /\ old' = old_run(old)
    /\ UNCHANGED <<ctorArgs, history, registrations, received>>

\* read(): the twin calls run()
Read ==
    /\ Step
    /\ Started # Execs
    /\ Commit(read(World))
    /\ twin' = run(twin)
    /\ old' = old_read(old)
    /\ UNCHANGED <<ctorArgs, history, registrations, received>>

\* The "spawn" event of execution e: the process was created.
SpawnEvent(e) ==
    /\ Step
    /\ execs[e].st = "spawning"
    /\ Commit(spawnListener(tick([World EXCEPT !.execs[e].st = "streaming"])))
    /\ twin' = spawnListener(tick([twin EXCEPT !.execs[e].st = "streaming"]))
    /\ old' = tick([old EXCEPT !.execs[e].st = "streaming"])
    /\ UNCHANGED <<ctorArgs, history, registrations, received>>

\* A "data" event of the stdout or the stderr stream of execution e.
Data(e, source, chunk) ==
    /\ Step
    /\ execs[e].st = "streaming"
    /\ Commit(onChunk(tick(World), source, chunk))
    /\ twin' = onChunk(tick(twin), source, chunk)
    /\ old' = old_onData(tick(old), e, source, chunk)
    /\ received' = Append(received, [kind |-> "data", exec |-> e, source |-> source, chunk |-> chunk])
    /\ UNCHANGED <<ctorArgs, history, registrations>>

\* The "error" event of execution e: the process could not be created.
ErrorEvent(e, se) ==
    /\ Step
    /\ execs[e].st = "spawning"
    /\ Commit(errorListener(tick(World), e, ErrnoException(se)))
    /\ twin' = errorListener(tick(twin), e, ErrnoException(se))
    /\ old' = old_errorListener(tick(old), e, ErrnoException(se))
    /\ UNCHANGED <<ctorArgs, history, registrations, received>>

\* run() and read() when spawn() throws; the twin calls the other one.
RunThrows(se) ==
    /\ Step
    /\ Started # Execs
    /\ Commit(runOrReadThrows([World EXCEPT !.fc.shouldBeSilent = FALSE], "run", ErrnoException(se)))
    /\ twin' = runOrReadThrows([twin EXCEPT !.fc.shouldBeSilent = TRUE], "read", ErrnoException(se))
    /\ old' = old_runOrReadThrows(old, FALSE, ErrnoException(se))
    /\ UNCHANGED <<ctorArgs, history, registrations, received>>

ReadThrows(se) ==
    /\ Step
    /\ Started # Execs
    /\ Commit(runOrReadThrows([World EXCEPT !.fc.shouldBeSilent = TRUE], "read", ErrnoException(se)))
    /\ twin' = runOrReadThrows([twin EXCEPT !.fc.shouldBeSilent = FALSE], "run", ErrnoException(se))
    /\ old' = old_runOrReadThrows(old, TRUE, ErrnoException(se))
    /\ UNCHANGED <<ctorArgs, history, registrations, received>>

\* The error mapper runs on the rejection of the promise of execution e.
Mapped(e) ==
    /\ execs[e].promise = "rejected"
    /\ execs[e].result = NoResult
    /\ Commit(errorMapper(World, e))
    /\ twin' = errorMapper(twin, e)
    /\ old' = old_errorMapper(old, e)
    /\ received' = Append(received, [kind |-> "diagnostic", exec |-> e, source |-> "stderr",
                                       chunk |-> Diagnostic([code |-> execs[e].reason.code.v,
                                                             message |-> execs[e].reason.message.v])])
    /\ UNCHANGED <<ctorArgs, history, registrations>>

\* The rejection by the "error" event reaches the error mapper.
MapError(e) == Step /\ Mapped(e)

\* The same as a job of the microtask queue, which runs whatever else is
\* still to happen.
Microtask(e) == Mapped(e) /\ UNCHANGED left

\* The "close" event of a process that ran: an exit code, or the signal that
\* ended it.
Close(e, code, signal) ==
    /\ Step
    /\ execs[e].st = "streaming"
    /\ Commit(closeListener(tick(World), e, code, signal))
    /\ twin' = closeListener(tick(twin), e, code, signal)
    /\ old' = old_closeListener(tick(old), e, code, signal)
    /\ UNCHANGED <<ctorArgs, history, registrations, received>>

\* The "close" event of a process that could not be created: the exit code is
\* the negative errno of the failure.
CloseAfterError(e) ==
    /\ Step
    /\ execs[e].st = "errored"
    /\ \E se \in SpawnErrors :
          /\ ErrnoException(se) = execs[e].error
          /\ Commit(closeListener(tick(World), e, Num(se.errno), Null))
          /\ twin' = closeListener(tick(twin), e, Num(se.errno), Null)
          /\ old' = old_closeListener(tick(old), e, Num(se.errno), Null)
    /\ UNCHANGED <<ctorArgs, history, registrations, received>>

BuilderCall ==
    \/ \E a \in SysArgLists : Args(a)
    \/ \E k \in SysKeys, v \in SysValues : Opt(k, v)
    \/ \E k \in SysKeys, v \in SysValues : Option(k, v)
    \/ \E c \in SysCwds : Cwd(c[1], c[2])

Register == OnSpawn \/ OnStdout \/ OnStderr \/ OnOutput

Terminal == Run \/ Read

\* One turn of the event loop delivers one event of one process.
LoopEvent(e) ==
    \/ SpawnEvent(e)
    \/ \E source \in {"stdout", "stderr"} : \E chunk \in Chunks(source) : Data(e, source, chunk)
    \/ \E se \in SpawnErrors : ErrorEvent(e, se)
    \/ \E c \in ExitCodes : Close(e, Num(c), Null)
    \/ \E s \in Signals : Close(e, Null, Str(s))
    \/ CloseAfterError(e)

ProcessEvent == \E e \in Execs : MapError(e) \/ LoopEvent(e)

\* The whole program: any call on the builder and any process event, in any
\* order.
Next == BuilderCall \/ Register \/ Terminal \/ ProcessEvent

Init == InitWith(MaxSteps)

Spec == Init /\ [][Next]_vars

\* The executions alone: terminal operations and process events.
ExecNext == Terminal \/ ProcessEvent

ExecInit == InitWith(MaxExecSteps)

ExecSpec == ExecInit /\ [][ExecNext]_vars

\* The builder alone, over every kind of key and value.
BuildNext ==
    \/ \E a \in ArgLists : Args(a)
    \/ \E k \in Keys, v \in Values : Opt(k, v)
    \/ \E k \in Keys, v \in Values : Option(k, v)

BuildInit == InitWith(MaxBuildCalls)

BuildSpec == BuildInit /\ [][BuildNext]_vars

\* The working directory: cwd() calls of every shape, terminal operations and
\* process events.
CwdNext == (\E c \in Cwds : Cwd(c[1], c[2])) \/ Terminal \/ ProcessEvent

CwdInit == InitWith(MaxCwdSteps)

CwdSpec == CwdInit /\ [][CwdNext]_vars

\* The executions with the failures of spawn() itself and the microtask
\* queue, which is drained after every callback: a rejected promise is always
\* mapped.
TerminalThrows == \E se \in ThrownErrors : RunThrows(se) \/ ReadThrows(se)

LiveNext == Terminal \/ TerminalThrows \/ \E e \in Execs : LoopEvent(e) \/ Microtask(e)

LiveInit == InitWith(MaxLiveSteps)

LiveSpec == LiveInit /\ [][LiveNext]_vars /\ WF_vars(\E e \in Execs : Microtask(e))

\* The reuse of a builder: read() again and again, processes that write and
\* exit.
ReuseNext ==
    \/ Read
    \/ \E e \in Execs :
          \/ SpawnEvent(e)
          \/ \E chunk \in ReuseChunks : Data(e, "stdout", chunk)
          \/ \E chunk \in Chunks("stderr") : Data(e, "stderr", chunk)
          \/ \E c \in ExitCodes : Close(e, Num(c), Null)

ReuseInit == InitWith(MaxReuseSteps)

ReuseSpec == ReuseInit /\ [][ReuseNext]_vars

\* ---------------------------------------------------------------- claims
Last(s) == s[Len(s)]
Grown(log) == Len(log') = Len(log) + 1

\* What the documentation says a call adds to the argument vector.
Decimal(n) == CASE n = 0 -> <<"0">> [] n = 12 -> <<"1", "2">>
Dashes(op) == IF op = "opt" THEN <<"-">> ELSE <<"-", "-">>
KeyToken(c) == IF c.a = <<>> THEN <<>> ELSE << Dashes(c.op) \o c.a >>
ValueToken(c) ==
    CASE c.b.t = "string" /\ c.b.v # <<>> -> << c.b.v >>
      [] c.b.t = "number" -> << Decimal(c.b.v) >>
      [] OTHER -> <<>>
Contributed(c) ==
    CASE c.op = "args" -> c.a
      [] c.op \in {"opt", "option"} -> KeyToken(c) \o ValueToken(c)
      [] OTHER -> <<>>

RECURSIVE Flatten(_)
Flatten(calls) == IF calls = <<>> THEN <<>> ELSE Contributed(Head(calls)) \o Flatten(Tail(calls))

\* C1: after any sequence of args/opt/option calls the argument vector is the
\* initialArgs followed by the tokens of each call, in call order: nothing
\* added earlier is moved, dropped or repeated.
C1_ArgsInCallOrder == fc.commandArgs = ctorArgs \o Flatten(history)

C1_Witness ==
    /\ Len(history) = 3
    /\ {history[i].op : i \in 1 .. 3} = {"args", "opt", "option"}
    /\ ctorArgs # <<>>
    /\ Len(fc.commandArgs) >= 6

\* C2: opt(key, value) appends "-" + key exactly when the key is not empty,
\* then one value token exactly when the value is a non-empty string (as is)
\* or a number (in decimal, 0 included); option does the same with "--".
C2_OptionTokens ==
    [][ (Grown(history) /\ Last(history').op \in {"opt", "option"}) =>
            LET c == Last(history')
            IN  fc'.commandArgs = fc.commandArgs \o KeyToken(c) \o ValueToken(c) ]_vars

C2_Witness ==
    /\ Len(history) >= 2
    /\ Last(history) = Call("option", <<"k">>, Num(0))
    /\ history[1] = Call("opt", <<>>, Str(<<"v">>))
    /\ SubSeq(fc.commandArgs, Len(fc.commandArgs) - 1, Len(fc.commandArgs))
         = << <<"-", "-", "k">>, <<"0">> >>

\* The executions whose process ran and ended, and those whose process could
\* not be created.
Exited == { e \in Execs : execs[e].exit # Null /\ execs[e].error = Null }
Failed == { e \in Execs : execs[e].error # Null }
Settled == { e \in Execs : execs[e].result # NoResult }
Outcome(e) == execs[e].result.value

\* C3: a close notification with exit code 0 gives the ok variant, and its
\* outcome has no code and no signal field.
C3_ZeroIsSuccess ==
    \A e \in Exited :
        execs[e].exit.code = Num(0) =>
            /\ execs[e].result.variant = "ok"
            /\ "code" \notin DOMAIN Outcome(e)
            /\ "signal" \notin DOMAIN Outcome(e)

\* An execution that exits with 0 on a builder whose earlier execution left a
\* code and a signal behind.
C3_Witness ==
    \E d, e \in Exited :
        /\ d < e
        /\ execs[d].exit.code # Num(0)
        /\ execs[e].exit.code = Num(0)
        /\ execs[e].result.variant = "ok"

\* C4: a process that ends with a nonzero exit code, or by a signal alone,
\* gives the error variant, whose code is the exit code observed (absent when
\* there is none) and whose signal is the signal observed (absent when there
\* is none).
C4_FailureCarriesObserved ==
    \A e \in Exited :
        execs[e].exit.code # Num(0) =>
            /\ execs[e].result.variant = "err"
            /\ IF execs[e].exit.code = Null
               THEN "code" \notin DOMAIN Outcome(e)
               ELSE "code" \in DOMAIN Outcome(e) /\ Outcome(e).code = execs[e].exit.code.v
            /\ IF execs[e].exit.signal = Null
               THEN "signal" \notin DOMAIN Outcome(e)
               ELSE "signal" \in DOMAIN Outcome(e) /\ Outcome(e).signal = execs[e].exit.signal.v

\* An execution ended by a signal after one that exited with a code, and one
\* that exited with a code after one ended by a signal.
C4_Witness ==
    \E d, e \in Exited :
        /\ d # e
        /\ execs[d].exit.code = Num(1)
        /\ execs[e].exit.signal # Null
        /\ execs[e].result.variant = "err"
        /\ "signal" \in DOMAIN Outcome(e)
        /\ "code" \notin DOMAIN Outcome(e)

Contains(s, t) == \E i \in 0 .. (Len(s) - Len(t)) : SubSeq(s, i + 1, i + Len(t)) = t

\* C5: when the process cannot be created, the result is the error variant
\* with code SPAWN_MISSING_EXE_CODE and a stderr that contains
\* "<error code>: <error message>", whether the close notification comes
\* before or after the error is mapped.
C5_SpawnFailure ==
    \A e \in Failed \cap Settled :
        /\ execs[e].result.variant = "err"
        /\ "code" \in DOMAIN Outcome(e)
        /\ Outcome(e).code = SPAWN_MISSING_EXE_CODE
        /\ Contains(Outcome(e).stderr,
                    execs[e].error.code.v \o <<":", " ">> \o execs[e].error.message.v)

\* One failed creation mapped after its close notification and one mapped
\* before it.
C5_Witness ==
    \E d, e \in Failed \cap Settled :
        /\ execs[d].closedBeforeMapped
        /\ execs[d].exit.code # Num(SPAWN_MISSING_EXE_CODE)
        /\ ~execs[e].closedBeforeMapped

Kinds == {"data", "diagnostic"}
Sources == {"stdout", "stderr"}

\* The chunks of the log of the given kinds and sources, concatenated.
RECURSIVE Concat(_, _, _)
Concat(log, kinds, sources) ==
    IF log = <<>> THEN <<>>
    ELSE (IF Head(log).kind \in kinds /\ Head(log).source \in sources
          THEN Head(log).chunk ELSE <<>>) \o Concat(Tail(log), kinds, sources)

FromStdout(r) == r.kind = "data" /\ r.source = "stdout"
FromStderr(r) == r.kind = "data" /\ r.source = "stderr"

\* C6 as stated: the three accumulators are the concatenations of the chunks
\* received from the streams (all of them in arrival order, those of stdout,
\* those of stderr).
C6_Original ==
    /\ fc.outputContents = Concat(received, {"data"}, Sources)
    /\ fc.stdoutContents = Concat(received, {"data"}, {"stdout"})
    /\ fc.stderrContents = Concat(received, {"data"}, {"stderr"})

\* C6, amended: the three accumulators are the concatenations of the chunks
\* the builder has handled since it was constructed, in the order handled: the
\* chunks received from the streams of its executions and, as a stderr chunk,
\* the diagnostic of each failed creation. The combined text is as long as
\* the other two together.
C6_AccumulatorsAreHandledChunks ==
    /\ fc.outputContents = Concat(received, Kinds, Sources)
    /\ fc.stdoutContents = Concat(received, Kinds, {"stdout"})
    /\ fc.stderrContents = Concat(received, Kinds, {"stderr"})
    /\ Len(fc.outputContents) = Len(fc.stdoutContents) + Len(fc.stderrContents)

\* Chunks of both streams, stderr first, and the diagnostic of a failed
\* creation.
C6_Witness ==
    /\ \E i, j \in 1 .. Len(received) :
          /\ i < j
          /\ FromStderr(received[i])
          /\ FromStdout(received[j])
    /\ \E i \in 1 .. Len(received) : received[i].kind = "diagnostic"

\* C7: run() and read() differ in mirroring alone: with the same calls on the
\* builder and the same process events, and run() and read() exchanged, the
\* same observers are called with the same chunks in the same order, the
\* accumulators are the same and every result is the same variant with the
\* same outcome.
C7_RunReadEquivalent ==
    /\ observed = twin.observed
    /\ fc.stdoutContents = twin.fc.stdoutContents
    /\ fc.stderrContents = twin.fc.stderrContents
    /\ fc.outputContents = twin.fc.outputContents
    /\ \A e \in Execs :
          /\ execs[e].result = twin.execs[e].result
          /\ execs[e].op # "none" => execs[e].op # twin.execs[e].op

\* A settled execution started by run(), whose chunk was observed and
\* mirrored, while its twin, started by read(), mirrored nothing.
C7_Witness ==
    \E e \in Settled :
        /\ execs[e].op = "run"
        /\ twin.execs[e].op = "read"
        /\ \E i \in 1 .. Len(observed) : observed[i].arg \in {Str(c) : c \in Chunks("stdout")}
        /\ written.stdout # <<>>
        /\ twin.written.stdout = <<>>

\* C8 as stated: a chunk received in an execution started by run() is written
\* to the stream of the controlling process it came from, and a chunk received
\* in an execution started by read() is written nowhere.
C8_MirroringFollowsTerminal ==
    [][ (Grown(received) /\ Last(received').kind = "data") =>
            LET r == Last(received')
            IN  IF execs[r.exec].op = "run"
                THEN written' = [written EXCEPT ![r.source] = Append(@, r.chunk)]
                ELSE written' = written ]_vars

\* The observer calls a step adds.
NewCalls == SubSeq(observed', Len(observed) + 1, Len(observed'))

\* t is s without its trailing whitespace, and with everything else of s.
IsTrimEndOf(t, s) ==
    /\ Len(t) <= Len(s)
    /\ SubSeq(s, 1, Len(t)) = t
    /\ \A i \in (Len(t) + 1) .. Len(s) : s[i] \in Whitespace
    /\ t = <<>> \/ t[Len(t)] \notin Whitespace

\* C9: an outcome's stdout, stderr and output are the accumulators, as they
\* are when the outcome is built, without their trailing whitespace and with
\* their leading and interior whitespace; an observer is given the chunk
\* handled, whole.
C9_TrimmedOnlyInOutcome ==
    [][ /\ \A e \in Execs :
              (execs[e].result = NoResult /\ execs'[e].result # NoResult) =>
                  LET o == execs'[e].result.value
                  IN  /\ IsTrimEndOf(o.stdout, fc'.stdoutContents)
                      /\ IsTrimEndOf(o.stderr, fc'.stderrContents)
                      /\ IsTrimEndOf(o.output, fc'.outputContents)
        /\ Grown(received) =>
              \A i \in 1 .. Len(NewCalls) : NewCalls[i].arg = Str(Last(received').chunk) ]_vars

\* An outcome whose stdout lost trailing whitespace and kept leading and
\* interior whitespace, after an observer was given a chunk that ends in
\* whitespace.
C9_Witness ==
    \E e \in Settled :
        /\ Outcome(e).stdout # fc.stdoutContents
        /\ Outcome(e).stdout = <<" ", "o", " ", "k">>
        /\ \E i \in 1 .. Len(observed) : observed[i].arg = Str(<<" ", "o", " ", "k", " ">>)

\* The callbacks registered for a channel, in the order registered.
RECURSIVE RegisteredFor(_, _)
RegisteredFor(regs, channel) ==
    IF regs = <<>> THEN <<>>
    ELSE (IF Head(regs).channel = channel THEN <<Head(regs).id>> ELSE <<>>)
         \o RegisteredFor(Tail(regs), channel)

\* The call an event on a channel makes: of the last callback registered for
\* it, if any.
Expected(channel) ==
    LET ids == RegisteredFor(registrations, channel)
    IN  IF ids = <<>> THEN <<>> ELSE << Last(ids) >>

Callees(calls) == [i \in 1 .. Len(calls) |-> calls[i].fn]

\* C10: a channel holds one callback, the last one registered: a chunk calls
\* the last callback registered for its stream and then the last one
\* registered for the combined channel; the creation of a process calls the
\* last one registered for spawn; nothing else is called.
C10_LastRegistrationWins ==
    [][ /\ Len(observed') >= Len(observed)
        /\ SubSeq(observed', 1, Len(observed)) = observed
        /\ Callees(NewCalls) =
              IF Grown(received)
              THEN Expected(Last(received').source) \o Expected("output")
              ELSE IF \E e \in Execs : execs[e].st = "spawning" /\ execs'[e].st = "streaming"
                   THEN Expected("spawn")
                   ELSE <<>> ]_vars

\* Two registrations for one channel, and a call of the second.
C10_Witness ==
    \E i, j \in 1 .. Len(registrations) :
        /\ i < j
        /\ registrations[i].channel = registrations[j].channel
        /\ \E k \in 1 .. Len(observed) : observed[k].fn = registrations[j].id

\* The execution whose process is created by the step, and the one whose
\* creation fails in it.
Created(e) == execs[e].st = "spawning" /\ execs'[e].st = "streaming"
CreationFailed(e) == execs[e].st = "spawning" /\ execs'[e].st = "errored"
IsSpawnCall(c) == c.arg.t = "object"

\* C11 as stated: the creation of the process of an execution calls the spawn
\* observer, if one is registered, once, with the builder's executable, its
\* argument vector and the working directory resolved for that execution; no
\* other step, a failed creation included, calls it.
C11_SpawnObserver ==
    [][ /\ \A e \in Execs :
              Created(e) =>
                  IF fc.spawnHandler = Undefined
                  THEN NewCalls = <<>>
                  ELSE /\ Len(NewCalls) = 1
                       /\ NewCalls[1].fn = fc.spawnHandler.id
                       /\ NewCalls[1].arg.executable = Executable
                       /\ deref(World', NewCalls[1].arg.commandArgs) = fc.commandArgs
                       /\ NewCalls[1].arg.cwd = execs[e].spawned.cwd
        /\ (\A e \in Execs : ~Created(e)) =>
              \A i \in 1 .. Len(NewCalls) : ~IsSpawnCall(NewCalls[i]) ]_vars

\* The fragments of the most recent cwd() call; "" and no further fragment
\* when there was none.
RECURSIVE LastCwdCall(_)
LastCwdCall(h) ==
    IF h = <<>> THEN Call("cwd", Path(FALSE, <<>>), <<>>)
    ELSE IF Last(h).op = "cwd" THEN Last(h)
    ELSE LastCwdCall(SubSeq(h, 1, Len(h) - 1))
Fragments(h) == << ProcessCwd, LastCwdCall(h).a >> \o LastCwdCall(h).b

RECURSIVE Segments(_)
Segments(frags) == IF frags = <<>> THEN <<>> ELSE Head(frags).segs \o Segments(Tail(frags))

\* Join with override: the last absolute fragment and the fragments after
\* it, joined and normalised.
JoinWithOverride(frags) ==
    LET k == CHOOSE i \in 1 .. Len(frags) :
                 frags[i].abs /\ \A j \in (i + 1) .. Len(frags) : ~frags[j].abs
    IN  Path(TRUE, normalize(<<>>, Segments(SubSeq(frags, k, Len(frags)))))

StartedNow(e) == execs[e].st = "idle" /\ execs'[e].st # "idle"
SettledNow(e) == execs[e].result = NoResult /\ execs'[e].result # NoResult

\* The working directory is resolved at the start of an execution, and only
\* then, as the join with override of the process's directory and the
\* fragments of the most recent cwd() call, and that value is given to spawn.
CwdResolvedAtStart ==
    [][ /\ \A e \in Execs :
              StartedNow(e) =>
                  /\ fc'.resolvedCwd = JoinWithOverride(Fragments(history))
                  /\ execs'[e].spawned.cwd = fc'.resolvedCwd
        /\ (\A e \in Execs : ~StartedNow(e)) => fc'.resolvedCwd = fc.resolvedCwd ]_vars

\* C12 as stated: the working directory is resolved once, at the start of
\* each execution, as the join with override of the process's directory and
\* the fragments of the most recent cwd() call, and the outcome of the
\* execution reports the value its process was created with.
C12_ResolvedCwd ==
    [][ /\ \A e \in Execs :
              StartedNow(e) =>
                  /\ fc'.resolvedCwd = JoinWithOverride(Fragments(history))
                  /\ execs'[e].spawned.cwd = fc'.resolvedCwd
        /\ (\A e \in Execs : ~StartedNow(e)) => fc'.resolvedCwd = fc.resolvedCwd
        /\ \A e \in Execs :
              SettledNow(e) => execs'[e].result.value.cwd = execs[e].spawned.cwd ]_vars

\* An execution whose process has settled: closed, failed to be created, or
\* not created because spawn() threw.
ProcessSettled(e) == execs[e].st \in {"closed", "errored", "threw"}

OutcomeFields == {"stdout", "stderr", "output", "executable", "commandArgs", "cwd", "duration"}

Resolved(e) ==
    /\ execs[e].result.variant \in {"ok", "err"}
    /\ OutcomeFields \subseteq DOMAIN execs[e].result.value
    /\ execs[e].result.variant = "ok" => DOMAIN execs[e].result.value = OutcomeFields

\* C13: every execution whose process has settled (a close notification, an
\* error notification for a failed creation, a spawn() that threw) eventually
\* has its result resolved to the ok or the error variant holding an outcome:
\* it is not left pending.
C13_SettledProcessResolves == \A e \in Execs : []<>(ProcessSettled(e) => Resolved(e))

\* A spawn() that threw, resolved to the error variant, and a failed creation
\* resolved to the error variant.
C13_Witness ==
    \E d, e \in Settled :
        /\ execs[d].st = "threw"
        /\ execs[d].result.variant = "err"
        /\ execs[e].st \in {"errored", "closed"}
        /\ execs[e].error # Null

\* Two executions overlap: one was started before the other had settled.
Overlapping(d, e) == d \in execs[e].overlapped \/ e \in execs[d].overlapped

\* The chunks handled for execution e.
RECURSIVE ChunksOf(_, _)
ChunksOf(log, e) ==
    IF log = <<>> THEN <<>>
    ELSE (IF Head(log).exec = e THEN <<Head(log)>> ELSE <<>>) \o ChunksOf(Tail(log), e)

\* C14 as stated: when the executions of one builder overlap, the outcome of
\* each has the stdout, stderr and output of the chunks of its own process,
\* the working directory its process was created in, the code and the signal
\* of its own exit (the sentinel code for a creation that failed) and the
\* time since its own start.
C14_ExecutionStateNotShared ==
    [][ \A e \in Execs :
          (/\ SettledNow(e)
           /\ \E d \in Execs \ {e} : Overlapping(d, e)
           /\ \A d \in Execs \ {e} : execs[d].st # "idle" => Overlapping(d, e)) =>
              LET o == execs'[e].result.value
                  own == ChunksOf(received', e)
                  exit == execs'[e].exit
              IN  /\ o.stdout = trimEnd(Concat(own, Kinds, {"stdout"}))
                  /\ o.stderr = trimEnd(Concat(own, Kinds, {"stderr"}))
                  /\ o.output = trimEnd(Concat(own, Kinds, Sources))
                  /\ o.cwd = execs[e].spawned.cwd
                  /\ o.duration = now' - execs[e].startedAt
                  /\ "code" \in DOMAIN o =>
                        o.code = IF execs'[e].error # Null THEN SPAWN_MISSING_EXE_CODE
                                 ELSE exit.code.v
                  /\ "signal" \in DOMAIN o => exit # Null /\ exit.signal = Str(o.signal) ]_vars

\* Execution e has the builder to itself: no other execution is under way.
Alone(e) == execs[e].overlapped = {} /\ Unsettled(World) \subseteq {e}

\* C15 as stated: whatever is called on the builder between the terminal
\* operation and the settlement of an execution, the argument vector and the
\* working directory given to the spawn observer, and those of the outcome,
\* are the ones spawn was called with.
C15_SpawnSpecImmutable ==
    [][ \A e \in Execs :
          Alone(e) =>
              /\ Created(e) =>
                    \A i \in 1 .. Len(NewCalls) :
                        IsSpawnCall(NewCalls[i]) =>
                            /\ deref(World', NewCalls[i].arg.commandArgs) = execs[e].spawned.args
                            /\ NewCalls[i].arg.cwd = execs[e].spawned.cwd
              /\ SettledNow(e) =>
                    /\ deref(World', execs'[e].result.value.commandArgs) = execs[e].spawned.args
                    /\ execs'[e].result.value.cwd = execs[e].spawned.cwd ]_vars

\* C16 as stated: once an execution has settled, no call on the builder and no
\* process event changes a field of its outcome, the argument vector
\* included.
C16_OutcomeImmutable ==
    [][ \A e \in Execs :
          execs[e].result # NoResult =>
              /\ execs'[e].result = execs[e].result
              /\ deref(World', execs'[e].result.value.commandArgs)
                    = deref(World, execs[e].result.value.commandArgs) ]_vars

\* A notification of execution e: its process changes state.
Notified(e) == execs'[e].st # execs[e].st

\* C17: an execution settles once: a notification that comes after the result
\* was settled (a close after an error, which calls reject again) leaves the
\* promise, the variant and every field of the outcome as they are, the
\* argument vector as read through the outcome included.
C17_SettlesOnce ==
    [][ \A e \in Execs :
          execs[e].result # NoResult =>
              /\ execs'[e].result = execs[e].result
              /\ execs'[e].promise = execs[e].promise
              /\ execs'[e].reason = execs[e].reason
              /\ Notified(e) =>
                    deref(World', execs'[e].result.value.commandArgs)
                       = deref(World, execs[e].result.value.commandArgs) ]_vars

\* A failed creation whose result was settled by the error, and whose close
\* notification came afterwards.
C17_Witness ==
    \E e \in Settled :
        /\ execs[e].error # Null
        /\ execs[e].st = "closed"
        /\ ~execs[e].closedBeforeMapped
        /\ execs[e].result.variant = "err"
        /\ Outcome(e).code = SPAWN_MISSING_EXE_CODE

\* The observer calls and the writes a step of a variant makes, in order.
NewEffects(w, v) == SubSeq(v.effects, Len(w.effects) + 1, Len(v.effects))

Accumulator(w, source) == IF source = "stdout" THEN w.fc.stdoutContents ELSE w.fc.stderrContents

\* The step from w to v handles chunk r in the order: append to the
\* accumulator of the channel and to the combined one, call the observer of
\* the channel, call the combined observer, and then write, if at all; each
\* observer finds the chunk in both accumulators.
ChunkOrder(w, v, r) ==
    LET fx == NewEffects(w, v)
        ids == Expected(r.source) \o Expected("output")
        n == Len(ids)
    IN  /\ Accumulator(v, r.source) = Accumulator(w, r.source) \o r.chunk
        /\ v.fc.outputContents = w.fc.outputContents \o r.chunk
        /\ Len(fx) \in {n, n + 1}
        /\ \A i \in 1 .. n :
              /\ fx[i].kind = "call"
              /\ fx[i].fn = ids[i]
              /\ fx[i].arg = Str(r.chunk)
              /\ fx[i][r.source] = Accumulator(w, r.source) \o r.chunk
              /\ fx[i].output = w.fc.outputContents \o r.chunk
        /\ Len(fx) = n + 1 =>
              fx[n + 1] = [kind |-> "write", source |-> r.source, chunk |-> r.chunk]

ChunkReceived == Grown(received) /\ Last(received').kind = "data"

\* The order of C18 in the current variant (src/src/command.ts).
ChunkOrderCurrent == [][ ChunkReceived => ChunkOrder(World, World', Last(received')) ]_vars

\* C18 as stated: in both variants, a chunk is appended to the accumulator of
\* its channel and to the combined one, then the observer of the channel is
\* called, then the combined observer, and only then the chunk is written to
\* the stream of the controlling process; an observer finds the chunk it is
\* given in the accumulators.
C18_ChunkOrder ==
    [][ ChunkReceived =>
            /\ ChunkOrder(World, World', Last(received'))
            /\ ChunkOrder(old, old', Last(received')) ]_vars

\* Field f is in both outcomes with one value, or in neither.
SameField(f, a, b) == (f \in DOMAIN a) = (f \in DOMAIN b) /\ (f \in DOMAIN a => a[f] = b[f])

ComparedFields == {"stdout", "stderr", "output", "code", "signal"}

\* C19 as stated: given the same calls and the same process events, the two
\* variants resolve every execution to the same variant of the result, with
\* the same stdout, stderr, output, code and signal.
C19_VariantsAgree ==
    \A e \in Execs :
        /\ old.execs[e].result.variant = execs[e].result.variant
        /\ e \in Settled =>
              \A f \in ComparedFields : SameField(f, Outcome(e), old.execs[e].result.value)

\* The chunks handled for the executions 1 .. e, those of an execution
\* together, in the order of the executions.
RECURSIVE ByExecution(_, _)
ByExecution(log, e) ==
    IF e = 0 THEN <<>> ELSE ByExecution(log, e - 1) \o ChunksOf(log, e)

\* The executions started so far came one after the other: none was started
\* before the one before it had settled.
OneAfterTheOther == \A d \in Execs : execs[d].overlapped = {}

\* C20: a terminal operation on a builder whose earlier executions have
\* settled leaves the accumulators as they are, with the untrimmed text of the
\* earlier executions, and the outcome of the new execution has, in stdout,
\* stderr and output, the chunks of the earlier executions followed by its
\* own, without the trailing whitespace of the whole.
C20_AccumulatorsNotReset ==
    [][ \A e \in Execs :
          /\ (StartedNow(e) /\ OneAfterTheOther') =>
                /\ fc'.stdoutContents = Concat(ByExecution(received, e - 1), Kinds, {"stdout"})
                /\ fc'.stderrContents = Concat(ByExecution(received, e - 1), Kinds, {"stderr"})
                /\ fc'.outputContents = Concat(ByExecution(received, e - 1), Kinds, Sources)
          /\ (SettledNow(e) /\ OneAfterTheOther /\ Unsettled(World) = {e}) =>
                LET o == execs'[e].result.value
                    all == ByExecution(received', e)
                IN  /\ o.stdout = trimEnd(Concat(all, Kinds, {"stdout"}))
                    /\ o.stderr = trimEnd(Concat(all, Kinds, {"stderr"}))
                    /\ o.output = trimEnd(Concat(all, Kinds, Sources)) ]_vars

\* A second execution, started after the first had settled, whose outcome
\* holds the chunk of the first, with its trailing blank, before its own.
C20_Witness ==
    /\ OneAfterTheOther
    /\ {1, 2} \subseteq Settled
    /\ Outcome(1).stdout = <<"a">>
    /\ Outcome(2).stdout = <<"a", " ", "b">>
    /\ Outcome(2).output = <<"a", " ", "b">>
====
